---- MODULE Spec2Model ----
(***************************************************************************)
(* The field-oriented-control math core of phycrax/foc: the Clarke and     *)
(* Park transforms (park_clarke.rs), the four PWM modulation strategies    *)
(* and the compare-value mapping (pwm.rs), and the PI/PID controller       *)
(* (pid.rs).                                                               *)
(*                                                                         *)
(* The program computes in IEEE-754 binary32 (Rust f32).  A number is a    *)
(* record [k, s, m, e]: k is "fin", "inf" or "nan", s the sign bit, and a  *)
(* finite number has the value (-1)^s * m * 2^e.  Every source function    *)
(* takes the arithmetic `ar` it is evaluated in as its first parameter:    *)
(*   "f32"  - what the build does: every operation rounds to binary32      *)
(*            (round to nearest, ties to even; signed zeros, subnormals,   *)
(*            infinities and NaN);                                         *)
(*   "real" - the same formulas with the same constants, no rounding       *)
(*            (exact dyadic rationals), for the statements the             *)
(*            specification makes "in exact arithmetic".                   *)
(***************************************************************************)
EXTENDS Integers, Sequences, FiniteSets, TLC

(***************************************************************************)
(* binary32: 24 significant bits, least exponent of a unit in the last     *)
(* place -149, greatest 104 (2^24 * 2^104 = 2^128 overflows).              *)
(***************************************************************************)
Precision == 24
EMin == -149
EMax == 104

Fin(s, m, e) == [k |-> "fin", s |-> s, m |-> m, e |-> e]
Inf(s) == [k |-> "inf", s |-> s, m |-> 0, e |-> 0]
NaN(s) == [k |-> "nan", s |-> s, m |-> 0, e |-> 0]
Zero(s) == Fin(s, 0, 0)

IsNaN(x) == x.k = "nan"
IsInf(x) == x.k = "inf"
IsFinite(x) == x.k = "fin"
IsZero(x) == x.k = "fin" /\ x.m = 0

RECURSIVE BitLen(_)
BitLen(m) == IF m = 0 THEN 0 ELSE 1 + BitLen(m \div 2)

\* The least of two integers, the greatest of two integers.
MinInt(a, b) == IF a < b THEN a ELSE b
MaxInt(a, b) == IF a > b THEN a ELSE b

\* m with its lowest bit set when `inexact`: the sticky bit of a truncation.
Jam(m, inexact) == IF inexact /\ m % 2 = 0 THEN m + 1 ELSE m

\* A finite result of binary32: overflow gives an infinity.
Pack(s, m, e) ==
    IF m = 0 THEN Zero(s) ELSE IF e > EMax THEN Inf(s) ELSE Fin(s, m, e)

\* Round (-1)^s * m * 2^e to binary32, nearest, ties to even.  m < 2^30; an
\* inexact m carries its sticky bit as the lowest bit and at least two bits
\* more than the precision.
RoundPack(s, m, e) ==
    IF m = 0 THEN Zero(s)
    ELSE LET L == BitLen(m)
             sh == MaxInt(L - Precision, EMin - e)
         IN IF sh <= 0
            THEN LET up == MinInt(Precision - L, e - EMin)
                 IN Pack(s, m * 2^up, e - up)
            ELSE IF sh > 30 THEN Zero(s)
            ELSE LET q == m \div 2^sh
                     r == m % 2^sh
                     half == 2^(sh - 1)
                     q1 == IF r > half \/ (r = half /\ q % 2 = 1)
                           THEN q + 1 ELSE q
                 IN IF q1 = 2^Precision
                    THEN Pack(s, 2^(Precision - 1), e + sh + 1)
                    ELSE Pack(s, q1, e + sh)

\* A non-zero finite binary32 number with its significand shifted up to 24
\* bits (a subnormal gets an exponent below EMin): <<m, e>>.
Norm(x) ==
    LET up == Precision - BitLen(x.m) IN <<x.m * 2^up, x.e - up>>

\* |x| >= |y| for normalised significand/exponent pairs.
MagGe(a, b) == a[2] > b[2] \/ (a[2] = b[2] /\ a[1] >= b[1])

F32AddFinite(x, y) ==
    LET nx == Norm(x)
        ny == Norm(y)
        xBig == MagGe(nx, ny)
        a == IF xBig THEN nx ELSE ny
        b == IF xBig THEN ny ELSE nx
        sa == IF xBig THEN x.s ELSE y.s
        d == a[2] - b[2]
        A == a[1] * 8
        t == b[1] * 8
        B == IF d > 27 THEN 1 ELSE Jam(t \div 2^d, t % 2^d # 0)
        S == IF x.s = y.s THEN A + B ELSE A - B
    IN IF S = 0 THEN Zero(0) ELSE RoundPack(sa, S, a[2] - 3)

F32Add(x, y) ==
    IF IsNaN(x) \/ IsNaN(y) THEN NaN(0)
    ELSE IF IsInf(x) THEN (IF IsInf(y) /\ y.s # x.s THEN NaN(0) ELSE x)
    ELSE IF IsInf(y) THEN y
    ELSE IF IsZero(x) /\ IsZero(y) THEN Zero(IF x.s = y.s THEN x.s ELSE 0)
    ELSE IF IsZero(x) THEN y
    ELSE IF IsZero(y) THEN x
    ELSE F32AddFinite(x, y)

Xor(s, t) == IF s = t THEN 0 ELSE 1

\* The 48-bit product of two 24-bit significands, by 12-bit limbs, cut to
\* its upper 30 bits with the rest as the sticky bit.
F32MulFinite(x, y) ==
    LET nx == Norm(x)
        ny == Norm(y)
        h1 == nx[1] \div 4096
        l1 == nx[1] % 4096
        h2 == ny[1] \div 4096
        l2 == ny[1] % 4096
        mid == h1 * l2 + l1 * h2
        loFull == l1 * l2 + (mid % 4096) * 4096
        lo == loFull % 16777216
        hi == h1 * h2 + mid \div 4096 + loFull \div 16777216
        M == Jam(hi * 64 + lo \div 262144, lo % 262144 # 0)
    IN RoundPack(Xor(x.s, y.s), M, nx[2] + ny[2] + 18)

F32Mul(x, y) ==
    IF IsNaN(x) \/ IsNaN(y) THEN NaN(0)
    ELSE IF IsInf(x) \/ IsInf(y)
         THEN (IF IsZero(x) \/ IsZero(y) THEN NaN(0) ELSE Inf(Xor(x.s, y.s)))
    ELSE IF IsZero(x) \/ IsZero(y) THEN Zero(Xor(x.s, y.s))
    ELSE F32MulFinite(x, y)

\* Long division: <<quotient, remainder>> of (q * d + r) * 2^n by d.
RECURSIVE LongDiv(_, _, _, _)
LongDiv(q, r, d, n) ==
    IF n = 0 THEN <<q, r>>
    ELSE IF 2 * r >= d THEN LongDiv(2 * q + 1, 2 * r - d, d, n - 1)
         ELSE LongDiv(2 * q, 2 * r, d, n - 1)

F32DivFinite(x, y) ==
    LET nx == Norm(x)
        ny == Norm(y)
        qr == LongDiv(nx[1] \div ny[1], nx[1] % ny[1], ny[1], 27)
    IN RoundPack(Xor(x.s, y.s), Jam(qr[1], qr[2] # 0), nx[2] - ny[2] - 27)

F32Div(x, y) ==
    IF IsNaN(x) \/ IsNaN(y) THEN NaN(0)
    ELSE IF IsInf(x) THEN (IF IsInf(y) THEN NaN(0) ELSE Inf(Xor(x.s, y.s)))
    ELSE IF IsInf(y) THEN Zero(Xor(x.s, y.s))
    ELSE IF IsZero(y) THEN (IF IsZero(x) THEN NaN(0) ELSE Inf(Xor(x.s, y.s)))
    ELSE IF IsZero(x) THEN Zero(Xor(x.s, y.s))
    ELSE F32DivFinite(x, y)

(***************************************************************************)
(* Exact arithmetic on dyadic rationals: no rounding, no signed zero, the  *)
(* significand kept odd.  Only finite operands; a division is by a power   *)
(* of two (every division of the transforms and modulations is by 2.0).    *)
(***************************************************************************)
RECURSIVE Odd(_, _, _)
Odd(s, m, e) ==
    IF m = 0 THEN Zero(0)
    ELSE IF m % 2 = 0 THEN Odd(s, m \div 2, e + 1) ELSE Fin(s, m, e)

RealAdd(x, y) ==
    LET ox == Odd(x.s, x.m, x.e)
        oy == Odd(y.s, y.m, y.e)
        e == MinInt(ox.e, oy.e)
        a == (IF ox.s = 0 THEN 1 ELSE -1) * ox.m * 2^(ox.e - e)
        b == (IF oy.s = 0 THEN 1 ELSE -1) * oy.m * 2^(oy.e - e)
        n == a + b
    IN IF ox.m = 0 THEN oy
       ELSE IF oy.m = 0 THEN ox
       ELSE IF n < 0 THEN Odd(1, -n, e) ELSE Odd(0, n, e)

RealMul(x, y) ==
    LET ox == Odd(x.s, x.m, x.e)
        oy == Odd(y.s, y.m, y.e)
    IN Odd(Xor(x.s, y.s), ox.m * oy.m, ox.e + oy.e)

RealDiv(x, y) ==
    LET d == Odd(y.s, y.m, y.e)
    IN CASE d.m = 1 -> Odd(Xor(x.s, y.s), x.m, x.e - d.e)

(***************************************************************************)
(* The operators of the source, in the arithmetic `ar`.                    *)
(***************************************************************************)
Arithmetics == {"f32", "real"}

Add(ar, x, y) == IF ar = "f32" THEN F32Add(x, y) ELSE RealAdd(x, y)
Mul(ar, x, y) == IF ar = "f32" THEN F32Mul(x, y) ELSE RealMul(x, y)
Div(ar, x, y) == IF ar = "f32" THEN F32Div(x, y) ELSE RealDiv(x, y)
\* Unary minus flips the sign bit (of a zero and of a NaN too).
Neg(ar, x) ==
    IF ar = "real" /\ x.m = 0 THEN Zero(0) ELSE [x EXCEPT !.s = 1 - x.s]
Sub(ar, x, y) == Add(ar, x, Neg(ar, y))

\* Comparison of magnitudes of finite numbers: |x| < |y|.
MagLt(x, y) ==
    IF x.m = 0 THEN y.m # 0
    ELSE IF y.m = 0 THEN FALSE
    ELSE LET tx == BitLen(x.m) + x.e
             ty == BitLen(y.m) + y.e
             e == MinInt(x.e, y.e)
         IN IF tx # ty THEN tx < ty
            ELSE x.m * 2^(x.e - e) < y.m * 2^(y.e - e)

\* x < y as IEEE-754 compares: false with a NaN, -0 = +0.
Lt(x, y) ==
    IF IsNaN(x) \/ IsNaN(y) THEN FALSE
    ELSE IF IsInf(x) THEN x.s = 1 /\ ~(IsInf(y) /\ y.s = 1)
    ELSE IF IsInf(y) THEN y.s = 0
    ELSE IF IsZero(x) /\ IsZero(y) THEN FALSE
    ELSE IF x.s # y.s THEN (IF IsZero(x) THEN y.s = 0
                            ELSE IF IsZero(y) THEN x.s = 1
                            ELSE x.s = 1)
    ELSE IF x.s = 0 THEN MagLt(x, y) ELSE MagLt(y, x)

Le(x, y) == ~IsNaN(x) /\ ~IsNaN(y) /\ ~Lt(y, x)
Eq(x, y) == Le(x, y) /\ Le(y, x)

Abs(x) == [x EXCEPT !.s = 0]

\* An integer as a number (exact in binary32 below 2^24).
FromInt(n) == IF n < 0 THEN RoundPack(1, -n, 0) ELSE RoundPack(0, n, 0)
\* n * 2^sh as a binary32 number.
Dyadic(n, sh) == IF n < 0 THEN RoundPack(1, -n, sh) ELSE RoundPack(0, n, sh)

One == FromInt(1)
Two == FromInt(2)
MinusOne == Neg("f32", One)

(***************************************************************************)
(* lib.rs: the two constants, as the binary32 numbers the literals denote. *)
(***************************************************************************)
FRAC_1_SQRT_3 == Fin(0, 9686330, -24)
SQRT_3 == Fin(0, 14529495, -23)

(***************************************************************************)
(* park_clarke.rs                                                          *)
(***************************************************************************)
\* clarke with the factor 2.0 of Eq4 left out.
clarke_without_factor(ar, inputs) ==
    [alpha |-> inputs.a,
     beta |-> Mul(ar, FRAC_1_SQRT_3, Add(ar, inputs.a, inputs.b))]

clarke(ar, inputs) ==
    [alpha |-> inputs.a,
     beta |-> Mul(ar, FRAC_1_SQRT_3,
                  Add(ar, inputs.a, Mul(ar, Two, inputs.b)))]

\* inverse_clarke with Eq7 a copy of Eq6.
inverse_clarke_c_as_b(ar, inputs) ==
    [a |-> inputs.alpha,
     b |-> Div(ar, Add(ar, Neg(ar, inputs.alpha),
                       Mul(ar, SQRT_3, inputs.beta)), Two),
     c |-> Div(ar, Add(ar, Neg(ar, inputs.alpha),
                       Mul(ar, SQRT_3, inputs.beta)), Two)]

inverse_clarke(ar, inputs) ==
    [a |-> inputs.alpha,
     b |-> Div(ar, Add(ar, Neg(ar, inputs.alpha),
                       Mul(ar, SQRT_3, inputs.beta)), Two),
     c |-> Div(ar, Sub(ar, Neg(ar, inputs.alpha),
                       Mul(ar, SQRT_3, inputs.beta)), Two)]

park(ar, cos_angle, sin_angle, inputs) ==
    [d |-> Add(ar, Mul(ar, cos_angle, inputs.alpha),
               Mul(ar, sin_angle, inputs.beta)),
     q |-> Sub(ar, Mul(ar, cos_angle, inputs.beta),
               Mul(ar, sin_angle, inputs.alpha))]

\* inverse_park with the sign of Eq10 that park's Eq8 has.
inverse_park_plus(ar, cos_angle, sin_angle, inputs) ==
    [alpha |-> Add(ar, Mul(ar, cos_angle, inputs.d),
                   Mul(ar, sin_angle, inputs.q)),
     beta |-> Add(ar, Mul(ar, sin_angle, inputs.d),
                  Mul(ar, cos_angle, inputs.q))]

inverse_park(ar, cos_angle, sin_angle, inputs) ==
    [alpha |-> Sub(ar, Mul(ar, cos_angle, inputs.d),
                   Mul(ar, sin_angle, inputs.q)),
     beta |-> Add(ar, Mul(ar, sin_angle, inputs.d),
                  Mul(ar, cos_angle, inputs.q))]

(***************************************************************************)
(* pwm.rs                                                                  *)
(***************************************************************************)
\* f32::is_sign_positive: the sign bit is clear.  The sign bit of a NaN
\* that an operation produced is not specified: either outcome.
is_sign_positive(x) == IF IsNaN(x) THEN BOOLEAN ELSE {x.s = 0}

\* f32::signum: 1.0 for a number with the sign bit clear (+0.0 too), -1.0
\* with it set (-0.0 too), NaN for a NaN.
signum(x) == IF IsNaN(x) THEN NaN(0) ELSE IF x.s = 0 THEN One ELSE MinusOne

\* A clamp that bounds from below only.
clamp_below_only(x, min, max) == IF Lt(x, min) THEN min ELSE x

\* f32::clamp(min, max).
clamp(x, min, max) ==
    IF Lt(x, min) THEN min ELSE IF Lt(max, x) THEN max ELSE x

\* `as u16`: truncation towards zero, saturating, NaN to 0.
as_u16(x) ==
    IF IsNaN(x) THEN 0
    ELSE IF x.s = 1 THEN 0
    ELSE IF IsInf(x) THEN 65535
    ELSE IF x.m = 0 THEN 0
    ELSE IF x.e >= 0 THEN (IF BitLen(x.m) + x.e > 16 THEN 65535
                           ELSE x.m * 2^x.e)
    ELSE IF -x.e > 30 THEN 0
    ELSE MinInt(x.m \div 2^(-x.e), 65535)

\* The conversion with z given y's sign of sqrt_3_alpha.
SpaceVector_xyz_z_as_y(ar, value) ==
    LET sqrt_3_alpha == Mul(ar, SQRT_3, value.alpha)
        beta == value.beta
    IN [x |-> beta,
        y |-> Div(ar, Add(ar, beta, sqrt_3_alpha), Two),
        z |-> Div(ar, Add(ar, beta, sqrt_3_alpha), Two)]

\* SpaceVector::modulate, the conversion of alpha/beta to x/y/z.
SpaceVector_xyz(ar, value) ==
    LET sqrt_3_alpha == Mul(ar, SQRT_3, value.alpha)
        beta == value.beta
    IN [x |-> beta,
        y |-> Div(ar, Add(ar, beta, sqrt_3_alpha), Two),
        z |-> Div(ar, Sub(ar, beta, sqrt_3_alpha), Two)]

\* The sector table with x's sign required where the source has a wildcard.
SpaceVector_sector_no_wildcard(px, py, pz) ==
    CASE px /\ py /\ ~pz -> 1
      [] px /\ py /\ pz -> 2
      [] px /\ ~py /\ pz -> 3
      [] ~px /\ ~py /\ pz -> 4
      [] ~px /\ ~py /\ ~pz -> 5
      [] ~px /\ py /\ ~pz -> 6
      [] OTHER -> 0

\* SpaceVector::modulate, the sector of a sign triple.
SpaceVector_sector(px, py, pz) ==
    CASE px /\ py /\ ~pz -> 1
      [] py /\ pz -> 2
      [] px /\ ~py /\ pz -> 3
      [] ~px /\ ~py /\ pz -> 4
      [] ~py /\ ~pz -> 5
      [] ~px /\ py /\ ~pz -> 6
      [] OTHER -> 0

\* The phases with tb of sectors 3 and 6 a copy of tc.
SpaceVector_phases_tb_as_tc(ar, sec, v) ==
    CASE sec \in {1, 4} ->
            [fault |-> FALSE,
             t |-> <<Sub(ar, v.x, v.z), Add(ar, v.x, v.z),
                     Add(ar, Neg(ar, v.x), v.z)>>]
      [] sec \in {2, 5} ->
            [fault |-> FALSE,
             t |-> <<Sub(ar, v.y, v.z), Add(ar, v.y, v.z),
                     Sub(ar, Neg(ar, v.y), v.z)>>]
      [] sec \in {3, 6} ->
            [fault |-> FALSE,
             t |-> <<Sub(ar, v.y, v.x), Sub(ar, Neg(ar, v.y), v.x),
                     Sub(ar, Neg(ar, v.y), v.x)>>]
      [] OTHER -> [fault |-> TRUE, t |-> <<>>]

\* SpaceVector::modulate, the phases of a sector; any other sector is the
\* unreachable!("invalid sector") panic.
SpaceVector_phases(ar, sec, v) ==
    CASE sec \in {1, 4} ->
            [fault |-> FALSE,
             t |-> <<Sub(ar, v.x, v.z), Add(ar, v.x, v.z),
                     Add(ar, Neg(ar, v.x), v.z)>>]
      [] sec \in {2, 5} ->
            [fault |-> FALSE,
             t |-> <<Sub(ar, v.y, v.z), Add(ar, v.y, v.z),
                     Sub(ar, Neg(ar, v.y), v.z)>>]
      [] sec \in {3, 6} ->
            [fault |-> FALSE,
             t |-> <<Sub(ar, v.y, v.x), Add(ar, Neg(ar, v.y), v.x),
                     Sub(ar, Neg(ar, v.y), v.x)>>]
      [] OTHER -> [fault |-> TRUE, t |-> <<>>]

Sinusoidal_modulate(ar, value) ==
    LET voltages == inverse_clarke(ar, value)
    IN <<voltages.a, voltages.b, voltages.c>>

Trapezoidal_modulate(ar, value) ==
    LET voltages == inverse_clarke(ar, value)
    IN <<signum(Mul(ar, voltages.a, Two)),
         signum(Mul(ar, voltages.b, Two)),
         signum(Mul(ar, voltages.c, Two))>>

Square_modulate(ar, value) ==
    LET voltages == inverse_clarke(ar, value)
    IN <<signum(voltages.a), signum(voltages.b), signum(voltages.c)>>

\* The closure without the offset of 1.0.
compare_value_no_offset(val, max_) ==
    as_u16(clamp(F32Div(F32Mul(val, F32Add(FromInt(max_), One)), Two),
                 Zero(0), FromInt(max_)))

\* Modulation::as_compare_value, the closure applied to each channel.
compare_value(val, max_) ==
    as_u16(clamp(F32Div(F32Mul(F32Add(val, One),
                               F32Add(FromInt(max_), One)), Two),
                 Zero(0), FromInt(max_)))

as_compare_value(modulated, max_) ==
    [i \in 1..3 |-> compare_value(modulated[i], max_)]

(***************************************************************************)
(* pid.rs                                                                  *)
(***************************************************************************)
\* Option<f32>: None is <<>>, Some(v) is <<v>>.
None == <<>>
Some(v) == <<v>>

PIDController_new(k_p, k_i, k_d) ==
    [k_p |-> k_p,
     integral |-> [k_i |-> k_i, integral |-> Zero(0)],
     derivative |-> [k_d |-> k_d, last_measurement |-> None]]

\* Each update returns the component as it is left and the value returned.
IntegralComponent_update(self, error, dt) ==
    LET integral == F32Add(self.integral, F32Mul(F32Mul(self.k_i, error), dt))
    IN [self |-> [self EXCEPT !.integral = integral], ret |-> integral]

\* The update that stores the measurement before it takes the difference.
DerivativeComponent_update_store_first(self, measurement, dt) ==
    LET derivative == F32Div(F32Add(measurement, Neg("f32", measurement)), dt)
    IN [self |-> [self EXCEPT !.last_measurement = Some(measurement)],
        ret |-> F32Mul(self.k_d, derivative)]

DerivativeComponent_update(self, measurement, dt) ==
    LET derivative == IF self.last_measurement = None THEN Zero(0)
                      ELSE F32Div(F32Add(measurement,
                                         Neg("f32", self.last_measurement[1])),
                                  dt)
    IN [self |-> [self EXCEPT !.last_measurement = Some(measurement)],
        ret |-> F32Mul(self.k_d, derivative)]

PIDController_update(self, setpoint, measurement, dt) ==
    LET error == F32Add(setpoint, Neg("f32", measurement))
        i == IntegralComponent_update(self.integral, error, dt)
        d == DerivativeComponent_update(self.derivative, measurement, dt)
    IN [self |-> [self EXCEPT !.integral = i.self, !.derivative = d.self],
        ret |-> F32Add(F32Add(F32Mul(self.k_p, error), i.ret), d.ret)]
(***************************************************************************)
(* The state: the inputs of a call, what the call computed, and the one    *)
(* stateful object, a PID controller with the calls made on it.            *)
(***************************************************************************)
VARIABLES
    op,          \* the operation applied: "none" before any
    arith,       \* the arithmetic the call is evaluated in
    value,       \* TwoPhaseReferenceFrame input of modulate / park
    max,         \* the max argument of as_compare_value
    balanced,    \* ThreePhaseBalancedReferenceFrame input of clarke
    angle,       \* <<cos_angle, sin_angle>>
    xyz,         \* SpaceVector's auxiliary values
    sector,      \* SpaceVector's sector
    fault,       \* the unreachable!("invalid sector") panic was hit
    phases,      \* the [f32; 3] returned by modulate
    compare,     \* the [u16; 3] returned by as_compare_value
    middle,      \* the transform of the input (clarke, park)
    result,      \* the inverse transform of `middle`
    pid,         \* the PIDController
    hist,        \* the update calls made on it: [setpoint, measurement, dt]
    output       \* what the last update returned

vars == <<op, arith, value, max, balanced, angle, xyz, sector, fault, phases,
          compare, middle, result, pid, hist, output>>

\* Bounds of the model: the input grids are the multiples of 1/4 up to
\* GridMax/4 in magnitude, and a controller is updated MaxUpdates times.
GridMax == 4
MaxUpdates == 3

Grid == {Dyadic(n, -2) : n \in -GridMax..GridMax}
\* The same grid 2^12 times as large, where a unit in the last place of
\* binary32 is above 1e-4.
LargeGrid == {Dyadic(n, 10) : n \in -GridMax..GridMax}
\* Negative zero, the infinities, NaN of either sign, the greatest power of
\* two (2^127) and the least positive number (2^-149) of binary32.
Specials == {Zero(1), Inf(0), Inf(1), NaN(0), NaN(1),
             Fin(0, 8388608, 104), Fin(0, 1, -149)}

\* The values the repository's tests use (park_clarke.rs tests).
TestValues == {FromInt(2), FromInt(3), FromInt(13), FromInt(21),
               Fin(1, 13421773, -27), Fin(1, 13421773, -26)}

TwoPhase(alpha, beta) == [alpha |-> alpha, beta |-> beta]
Balanced(a, b) == [a |-> a, b |-> b]

\* |x| <= |y| for finite numbers.
MagLe(x, y) == ~MagLt(y, x)

\* Zero, or of a magnitude from 2^-64 to 2^64: far from overflow and from
\* the subnormal numbers.
InNormalRange(x) ==
    /\ IsFinite(x)
    /\ IsZero(x) \/ (MagLe(Fin(0, 1, -64), x) /\ MagLe(x, Fin(0, 1, 64)))

IsReal(x) == InNormalRange(x) /\ ~(x.m = 0 /\ x.s = 1)
\* Exact arithmetic is over the reals: finite inputs, no negative zero.
ArithFor(v) ==
    IF IsReal(v.alpha) /\ IsReal(v.beta) THEN Arithmetics ELSE {"f32"}

NoValue == TwoPhase(Zero(0), Zero(0))
NoBalanced == Balanced(Zero(0), Zero(0))
NoAngle == <<One, Zero(0)>>
NoPid == PIDController_new(Zero(0), Zero(0), Zero(0))

Idle ==
    /\ op = "none"
    /\ xyz = None /\ sector = 0 /\ fault = FALSE /\ phases = None
    /\ compare = None /\ middle = None /\ result = None
    /\ hist = <<>> /\ output = None

(***************************************************************************)
(* Modulation: a strategy applied once to an input.                        *)
(***************************************************************************)
Strategies == {"SpaceVector", "Sinusoidal", "Trapezoidal", "Square"}
MaxValues == {0, 1, 255, 4095, 32768, 65535}
PwmValues == Grid \cup Specials

InitPwm ==
    /\ Idle
    /\ value \in {TwoPhase(a, b) : a \in PwmValues, b \in PwmValues}
    /\ arith \in ArithFor(value)
    /\ max \in MaxValues
    /\ balanced = NoBalanced /\ angle = NoAngle /\ pid = NoPid

PwmRest == <<arith, value, max, balanced, angle, middle, result, pid, hist,
             output>>

\* SpaceVector::modulate: its possible outcomes (one, unless a NaN's sign
\* is read).
SpaceVector_modulate(ar, value_) ==
    LET v == SpaceVector_xyz(ar, value_)
    IN {LET sec == SpaceVector_sector(px, py, pz)
            r == SpaceVector_phases(ar, sec, v)
        IN [xyz |-> v, sector |-> sec, fault |-> r.fault, t |-> r.t] :
        px \in is_sign_positive(v.x), py \in is_sign_positive(v.y),
        pz \in is_sign_positive(v.z)}

\* Modulation::modulate of a strategy: its possible outcomes.
modulate(strategy, ar, value_) ==
    LET plain(t) == {[xyz |-> None, sector |-> 0, fault |-> FALSE, t |-> t]}
    IN CASE strategy = "SpaceVector" -> SpaceVector_modulate(ar, value_)
         [] strategy = "Sinusoidal" -> plain(Sinusoidal_modulate(ar, value_))
         [] strategy = "Trapezoidal" -> plain(Trapezoidal_modulate(ar, value_))
         [] strategy = "Square" -> plain(Square_modulate(ar, value_))

Modulate(strategy) ==
    /\ op = "none"
    /\ \E r \in modulate(strategy, arith, value) :
          /\ xyz' = r.xyz
          /\ sector' = r.sector
          /\ fault' = r.fault
          /\ phases' = r.t
    /\ op' = strategy
    /\ UNCHANGED <<compare, PwmRest>>

SpaceVectorModulate == Modulate("SpaceVector")
SinusoidalModulate == Modulate("Sinusoidal")
TrapezoidalModulate == Modulate("Trapezoidal")
SquareModulate == Modulate("Square")

\* Modulation::as_compare_value of a strategy: modulate, then each channel
\* mapped (the build's arithmetic only: the result is an integer for the
\* hardware).  A panic of modulate leaves no result.
AsCompareValue ==
    /\ op = "none"
    /\ arith = "f32"
    /\ \E strategy \in Strategies :
          \E r \in modulate(strategy, arith, value) :
             /\ op' = strategy
             /\ xyz' = r.xyz
             /\ sector' = r.sector
             /\ fault' = r.fault
             /\ phases' = r.t
             /\ compare' = IF r.fault THEN None
                           ELSE as_compare_value(r.t, max)
    /\ UNCHANGED PwmRest

NextPwm ==
    \/ SpaceVectorModulate
    \/ SinusoidalModulate
    \/ TrapezoidalModulate
    \/ SquareModulate
    \/ AsCompareValue

SpecPwm == InitPwm /\ [][NextPwm]_vars
(***************************************************************************)
(* The transforms: the round trips of the repository's tests               *)
(* (clark_e_round_trip, park_round_trip), in the build's arithmetic.       *)
(***************************************************************************)
FrameValues == Grid \cup LargeGrid \cup TestValues

\* <<cos_angle, sin_angle>>: the axes, the binary32 roundings of
\* (0.6, 0.8), of (cos 0.82, sin 0.82) (the test's angle) and of
\* (sqrt(1/2), -sqrt(1/2)), and two pairs that are no rotation.
Angles == {<<One, Zero(0)>>, <<Zero(0), One>>, <<MinusOne, Zero(0)>>,
           <<Fin(0, 10066330, -24), Fin(0, 13421773, -24)>>,
           <<Fin(0, 11445773, -24), Fin(0, 12266591, -24)>>,
           <<Fin(0, 11863283, -24), Fin(1, 11863283, -24)>>,
           <<One, One>>, <<Fin(0, 1, -1), Fin(0, 1, -1)>>}

InitFrames ==
    /\ Idle
    /\ arith = "f32"
    /\ max = 0
    /\ pid = NoPid
    /\ \/ /\ balanced \in {Balanced(a, b) : a \in FrameValues, b \in FrameValues}
          /\ value = NoValue /\ angle = NoAngle
       \/ /\ value \in {TwoPhase(a, b) : a \in FrameValues, b \in FrameValues}
          /\ angle \in Angles
          /\ balanced = NoBalanced

FramesRest == <<arith, value, max, balanced, angle, xyz, sector, fault,
                phases, compare, pid, hist, output>>

\* tests::clark_e_round_trip: inverse_clarke(clarke(input)).
ClarkeRoundTrip ==
    /\ op = "none"
    /\ LET two_phase == clarke(arith, balanced)
       IN /\ middle' = two_phase
          /\ result' = inverse_clarke(arith, two_phase)
    /\ op' = "clarke"
    /\ UNCHANGED FramesRest

\* tests::park_round_trip: inverse_park(cos, sin, park(cos, sin, input)).
ParkRoundTrip ==
    /\ op = "none"
    /\ LET moving_reference == park(arith, angle[1], angle[2], value)
       IN /\ middle' = moving_reference
          /\ result' = inverse_park(arith, angle[1], angle[2], moving_reference)
    /\ op' = "park"
    /\ UNCHANGED FramesRest

NextFrames ==
    \/ ClarkeRoundTrip
    \/ ParkRoundTrip

SpecFrames == InitFrames /\ [][NextFrames]_vars

(***************************************************************************)
(* The PID controller: a controller is constructed and updated.            *)
(***************************************************************************)
Tenth == Fin(0, 13421773, -27)
Gains == {<<One, Fin(0, 1, -1), Fin(0, 1, -2)>>,
          <<Two, Tenth, FromInt(3)>>,
          <<Fin(0, 1, -1), Zero(0), MinusOne>>}
Setpoints == {One, Fin(1, 13421773, -26)}
Measurements == {Zero(0), Tenth, FromInt(3)}
Steps == {Tenth, FromInt(3)}

InitPid ==
    /\ Idle
    /\ arith = "f32"
    /\ max = 0
    /\ value = NoValue /\ balanced = NoBalanced /\ angle = NoAngle
    /\ \E g \in Gains : pid = PIDController_new(g[1], g[2], g[3])

Update ==
    /\ Len(hist) < MaxUpdates
    /\ \E setpoint \in Setpoints, measurement \in Measurements, dt \in Steps :
          LET r == PIDController_update(pid, setpoint, measurement, dt)
          IN /\ pid' = r.self
             /\ output' = r.ret
             /\ hist' = Append(hist, [setpoint |-> setpoint,
                                      measurement |-> measurement, dt |-> dt])
    /\ op' = "update"
    /\ UNCHANGED <<arith, value, max, balanced, angle, xyz, sector, fault,
                   phases, compare, middle, result>>

NextPid == Update

SpecPid == InitPid /\ [][NextPid]_vars

(***************************************************************************)
(* Properties of the modulation strategies.                                *)
(***************************************************************************)
FiniteInput == IsFinite(value.alpha) /\ IsFinite(value.beta)

\* The exact (unrounded) sum of three finite numbers.
ExactSum(a, b, c) == RealAdd(RealAdd(a, b), c)

NormalInput == InNormalRange(value.alpha) /\ InNormalRange(value.beta)

\* The greater of |alpha| and |beta|.
MaxAbs(v) == IF MagLt(v.alpha, v.beta) THEN Abs(v.beta) ELSE Abs(v.alpha)

\* Rounding tolerance for an input v: 2^-22 times its greater component
\* (four units of binary32's relative rounding error 2^-24).
Tolerance(v) == RealMul(Fin(0, 1, -22), MaxAbs(v))

\* C1: SpaceVector.modulate maps each of the 8 sign triples to exactly one
\* sector in 1..6, and for every input (signed zeros, infinities and NaN
\* included) the sector it selects is in 1..6 and the
\* unreachable!("invalid sector") fault is never hit.
C1_SectorInRange ==
    /\ \A px \in BOOLEAN, py \in BOOLEAN, pz \in BOOLEAN :
          SpaceVector_sector(px, py, pz) \in 1..6
    /\ op = "SpaceVector" => sector \in 1..6 /\ ~fault /\ Len(phases) = 3

\* C1 witness: a finite input with all three of x, y, z negative has been
\* classified (the wildcard row of sector 5).
C1_Witness ==
    /\ op = "SpaceVector" /\ arith = "f32" /\ FiniteInput
    /\ xyz.x.s = 1 /\ xyz.y.s = 1 /\ xyz.z.s = 1
    /\ sector = 5

\* The sign of a number as the specification means it: 0 for a zero.
Sign(x) == IF IsZero(x) THEN Zero(0) ELSE IF x.s = 0 THEN One ELSE MinusOne

\* C2 (as claimed): for every finite input and every phase i,
\* Square.modulate(v)[i] and Trapezoidal.modulate(v)[i] equal
\* sign(inverse_clarke(v)[i]), a component that is exactly zero giving 0.
C2_SignOfInverseClarke ==
    op \in {"Square", "Trapezoidal"} /\ arith = "f32" /\ FiniteInput =>
        LET voltages == inverse_clarke(arith, value)
        IN /\ Eq(phases[1], Sign(voltages.a))
           /\ Eq(phases[2], Sign(voltages.b))
           /\ Eq(phases[3], Sign(voltages.c))

\* C3: for every max, as_compare_value maps a channel whose modulate output
\* is exactly -1 to 0 and one whose output is exactly +1 to max.
C3_CompareBoundary ==
    compare # None =>
        \A i \in 1..3 :
            /\ Eq(phases[i], MinusOne) => compare[i] = 0
            /\ Eq(phases[i], One) => compare[i] = max

\* C3 witness: Square with max = 4095 returned +1 on phase a and -1 on
\* phase c, mapped to 4095 and 0.
C3_Witness ==
    /\ op = "Square" /\ compare # None /\ max = 4095
    /\ phases[1] = One /\ phases[3] = MinusOne
    /\ compare[1] = 4095 /\ compare[3] = 0

\* C4: for every strategy, input and max, each value as_compare_value
\* returns is in 0..max; a modulate output below -1 gives 0 and one above
\* +1 gives max (clamped, never wrapped).
C4_CompareInRange ==
    compare # None =>
        \A i \in 1..3 :
            /\ compare[i] \in 0..max
            /\ Lt(phases[i], MinusOne) => compare[i] = 0
            /\ Lt(One, phases[i]) => compare[i] = max

\* C4 witness: a Sinusoidal output with a channel above +1 and a channel
\* below -1, mapped with max = 65535.
C4_Witness ==
    /\ op = "Sinusoidal" /\ compare # None /\ max = 65535
    /\ \E i \in 1..3 : Lt(One, phases[i]) /\ compare[i] = 65535
    /\ \E i \in 1..3 : Lt(phases[i], MinusOne) /\ compare[i] = 0

\* C7 (as claimed): for every input (here: finite, far from overflow and
\* underflow) the three components returned
\* by inverse_clarke, which are Sinusoidal.modulate's outputs, sum to
\* exactly zero.
C7_SumIsZero ==
    op = "Sinusoidal" /\ NormalInput =>
        IsZero(ExactSum(phases[1], phases[2], phases[3]))

\* C7 (amended): Sinusoidal.modulate returns the components of
\* inverse_clarke; in exact arithmetic they sum to zero, and as computed in
\* binary32 (for a finite input far from overflow and underflow) their sum
\* is zero up to rounding: at most 2^-22 times the greater of |alpha| and
\* |beta|.
C7_SumIsZeroUpToRounding ==
    op = "Sinusoidal" /\ NormalInput =>
        LET voltages == inverse_clarke(arith, value)
            sum == ExactSum(phases[1], phases[2], phases[3])
        IN /\ phases = <<voltages.a, voltages.b, voltages.c>>
           /\ arith = "real" => IsZero(sum)
           /\ arith = "f32" => MagLe(sum, Tolerance(value))

\* C7 witness: binary32 returned components whose sum is not zero.
C7_Witness ==
    /\ op = "Sinusoidal" /\ arith = "f32" /\ NormalInput
    /\ ~IsZero(ExactSum(phases[1], phases[2], phases[3]))

\* C9 (as claimed): for every input the auxiliary values of
\* SpaceVector.modulate satisfy x - y + z = 0 (in exact arithmetic).
C9_XMinusYPlusZ ==
    op = "SpaceVector" /\ arith = "real" =>
        IsZero(ExactSum(xyz.x, Neg("real", xyz.y), xyz.z))

\* C9 (amended): the identity is x - y - z = 0, that is x = y + z: exactly
\* in exact arithmetic, and in binary32 (for a finite input far from
\* overflow and underflow) up to rounding: at most 2^-22 times the greater
\* of |alpha| and |beta|.
C9_XMinusYMinusZ ==
    op = "SpaceVector" /\ NormalInput =>
        LET sum == ExactSum(xyz.x, Neg("real", xyz.y), Neg("real", xyz.z))
        IN /\ arith = "real" => IsZero(sum)
           /\ arith = "f32" => MagLe(sum, Tolerance(value))

\* C9 witness: exact auxiliary values of an input off the line
\* beta = sqrt(3) * alpha, where x - y + z is not zero.
C9_Witness ==
    /\ op = "SpaceVector" /\ arith = "real"
    /\ ~IsZero(xyz.y) /\ ~IsZero(xyz.z)
    /\ ~IsZero(ExactSum(xyz.x, Neg("real", xyz.y), xyz.z))

\* C10: in exact arithmetic, whichever sector is selected, the outputs
\* satisfy ta - tb = sqrt(3)*alpha - beta and tb - tc = 2*beta.
C10_PhaseDifferences ==
    op = "SpaceVector" /\ arith = "real" =>
        /\ Eq(RealAdd(phases[1], Neg("real", phases[2])),
              RealAdd(RealMul(SQRT_3, value.alpha), Neg("real", value.beta)))
        /\ Eq(RealAdd(phases[2], Neg("real", phases[3])),
              RealMul(Two, value.beta))

\* C10 witness: an exact evaluation in sector 3 of an input with both
\* components non-zero.
C10_Witness ==
    /\ op = "SpaceVector" /\ arith = "real" /\ sector = 3
    /\ ~IsZero(value.alpha) /\ ~IsZero(value.beta)
(***************************************************************************)
(* Properties of the transforms.                                           *)
(***************************************************************************)
\* The tests' comparison, (result - input).abs() < 0.0001, in binary32.
Within(r, x) ==
    Lt(Abs(F32Add(r, Neg("f32", x))), Fin(0, 13743895, -37))

\* |x| <= 32: the magnitudes of the repository's tests (at most 21).
Typical(x) == IsFinite(x) /\ MagLe(x, Fin(0, 1, 5))

\* cos_angle^2 + sin_angle^2 as binary32 evaluates it.
SquaredNorm(a) == F32Add(F32Mul(a[1], a[1]), F32Mul(a[2], a[2]))

\* cos_angle^2 + sin_angle^2 = 1 as binary32 evaluates it.
UnitPair(a) == Eq(SquaredNorm(a), One)

\* The same to within 2^-22: the pair is the rounding of a point of the
\* unit circle.
NearUnitPair(a) ==
    Le(Abs(F32Add(SquaredNorm(a), MinusOne)), Fin(0, 1, -22))

C6_ClarkeRoundTrip ==
    op = "clarke" =>
        Within(result.a, balanced.a) /\ Within(result.b, balanced.b)

\* C6 (amended): the same for every input whose a and b are at most 32 in
\* magnitude.
C6_ClarkeRoundTripTypical ==
    op = "clarke" /\ Typical(balanced.a) /\ Typical(balanced.b) =>
        Within(result.a, balanced.a) /\ Within(result.b, balanced.b)

\* C6 witness: the test's case (13, 21), restored to within 1e-4.
C6_Witness ==
    /\ op = "clarke"
    /\ balanced = Balanced(FromInt(13), FromInt(21))
    /\ Within(result.a, balanced.a) /\ Within(result.b, balanced.b)

(***************************************************************************)
(* Properties of the PID controller.                                       *)
(***************************************************************************)
Error(call) == F32Add(call.setpoint, Neg("f32", call.measurement))

\* The sum over the calls of h of k_i * error_j * dt_j, from 0.
RECURSIVE IntegralSum(_, _)
IntegralSum(k_i, h) ==
    IF h = <<>> THEN Zero(0)
    ELSE LET n == Len(h)
         IN F32Add(IntegralSum(k_i, SubSeq(h, 1, n - 1)),
                   F32Mul(F32Mul(k_i, Error(h[n])), h[n].dt))

\* D_n: 0 on the first call, else k_d * (measurement_n - measurement_(n-1))
\* / dt_n.
DerivativeTerm(k_d, h) ==
    LET n == Len(h)
    IN IF n = 1 THEN Zero(0)
       ELSE F32Mul(k_d, F32Div(F32Add(h[n].measurement,
                                      Neg("f32", h[n - 1].measurement)),
                               h[n].dt))

\* C8: the n-th output of a freshly constructed PIDController is
\* k_p*error_n + sum over j <= n of k_i*error_j*dt_j + D_n, with D_1 = 0
\* and D_n = k_d*(measurement_n - measurement_(n-1))/dt_n.
C8_ClosedForm ==
    hist # <<>> =>
        Eq(output,
           F32Add(F32Add(F32Mul(pid.k_p, Error(hist[Len(hist)])),
                         IntegralSum(pid.integral.k_i, hist)),
                  DerivativeTerm(pid.derivative.k_d, hist)))

\* C8 witness: a third update whose measurement and setpoint both differ
\* from the second's, on a controller with all three gains non-zero.
C8_Witness ==
    /\ Len(hist) = 3
    /\ hist[3].measurement # hist[2].measurement
    /\ hist[3].setpoint # hist[2].setpoint
    /\ ~IsZero(pid.integral.k_i) /\ ~IsZero(pid.derivative.k_d)
    /\ ~IsZero(pid.integral.integral)
====
